---- MODULE Spec2Model ----
(***************************************************************************)
(* Model of telegram_timer.py: a Telegram bot that logs per-user start/end *)
(* events to a JSON file and derives session statistics from that log.     *)
(*                                                                         *)
(* Python values are modelled as follows.                                  *)
(*   datetime   an integer number of seconds on a scaled-down calendar     *)
(*   timedelta  an integer number of seconds (may be negative)             *)
(*   ISO string the record of calendar fields isoformat() prints           *)
(*   dict       a record; the empty dict is the empty function << >>       *)
(*   str(n) + " min", "N/A", "HHh MMm SSs"   records tagged by fmt         *)
(*   a call     a record whose field exc names the exception raised, or    *)
(*              "none" when the call returns                               *)
(***************************************************************************)
EXTENDS Integers, Sequences, FiniteSets, TLC

VARIABLES log_file, user_start_times, now, reply, faults, save_log_calls

vars == <<log_file, user_start_times, now, reply, faults, save_log_calls>>

----------------------------------------------------------------------------
(* Bounds of the model. *)

\* Longest log the handlers are allowed to build.
MaxLog == 4
\* How often the environment misbehaves in one run: the clock stepping back, the
\* process restarting, the file being lost or damaged.
MaxFaults == 1
\* The scaled-down calendar: a day of 90 s, months of 2 days, years of 2 months.
SecsPerDay == 90
DaysPerMonth == 2
MonthsPerYear == 2
\* Seconds between the two instants of the day on which the clock is read twice.
ShortGap == 45

\* The Telegram users sending commands.
Users == {1, 2}

----------------------------------------------------------------------------
(* Program constants. *)

SecsPerMinute == 60
SecsPerHour == 3600

----------------------------------------------------------------------------
(* datetime: calendar fields, isoformat / fromisoformat, subtraction. *)

SecsPerMonth == SecsPerDay * DaysPerMonth
SecsPerYear == SecsPerMonth * MonthsPerYear

year(dt) == dt \div SecsPerYear
month(dt) == (dt % SecsPerYear) \div SecsPerMonth
day(dt) == (dt % SecsPerMonth) \div SecsPerDay
date(dt) == <<year(dt), month(dt), day(dt)>>

\* The instants at which the wall clock is read: one on the first day, two on
\* the second, then the first instant of the next month and of the next year.
Instants == {0, SecsPerDay, SecsPerDay + ShortGap, SecsPerMonth, SecsPerYear}
Later(t) == {i \in Instants : i > t}
Earlier(t) == {i \in Instants : i < t}
NextInstant(t) == CHOOSE i \in Later(t) : \A j \in Later(t) : i <= j

isoformat(dt) ==
    [Y |-> year(dt), M |-> month(dt), D |-> day(dt), S |-> dt % SecsPerDay]

fromisoformat(iso) ==
    iso.Y * SecsPerYear + iso.M * SecsPerMonth + iso.D * SecsPerDay + iso.S

----------------------------------------------------------------------------
(* Python objects handed to save_log: a runtime type and a value. *)

PyDict(d) == [pytype |-> "dict", val |-> d]
PyStr(s) == [pytype |-> "str", val |-> s]

NonDictEntries == {PyStr("start")}

Username(user_id) == IF user_id = 1 THEN "anna" ELSE "bob"

NoException == "none"

----------------------------------------------------------------------------
(* format_duration *)

format_duration(td) ==
    IF td < 0 THEN [exc |-> "ValueError"]
    ELSE IF td = 0
         THEN [exc |-> NoException, value |-> [fmt |-> "hms", h |-> 0, m |-> 0, s |-> 0]]
         ELSE [exc |-> NoException,
               value |-> [fmt |-> "hms",
                          h |-> td \div SecsPerHour,
                          m |-> (td % SecsPerHour) \div SecsPerMinute,
                          s |-> td % SecsPerMinute]]

----------------------------------------------------------------------------
(* The log file and its two accessors. *)

\* LOG_FILE on disk: missing, zero bytes long, text that is no JSON document,
\* or the JSON document json.dump wrote for a list of entries.
AbsentFile == [kind |-> "absent", entries |-> << >>]
EmptyFile == [kind |-> "empty", entries |-> << >>]
CorruptFile == [kind |-> "corrupt", entries |-> << >>]
json_dump(logs) == [kind |-> "json", entries |-> logs]

json_load(file) ==
    IF file.kind = "json"
    THEN [exc |-> NoException, value |-> file.entries]
    ELSE [exc |-> "JSONDecodeError"]

load_logs_no_except(file) ==
    IF file.kind = "absent" THEN [exc |-> NoException, value |-> << >>]
    ELSE json_load(file)

load_logs(file) ==
    IF file.kind = "absent" THEN [exc |-> NoException, value |-> << >>]
    ELSE LET parsed == json_load(file) IN
         IF parsed.exc = "JSONDecodeError"
         THEN [exc |-> NoException, value |-> << >>]
         ELSE parsed

\* The list a caller of load_logs goes on with.
Loaded(file) == LET r == load_logs(file) IN IF r.exc = NoException THEN r.value ELSE << >>

save_log_no_validation(file, entry) ==
    [exc |-> NoException, file |-> json_dump(Append(Loaded(file), entry.val))]

save_log_no_load(file, entry) ==
    IF entry.pytype # "dict" THEN [exc |-> "ValueError", file |-> file]
    ELSE [exc |-> NoException, file |-> json_dump(<<entry.val>>)]

save_log(file, entry) ==
    IF entry.pytype # "dict" THEN [exc |-> "ValueError", file |-> file]
    ELSE LET logs == Loaded(file) IN
         [exc |-> NoException, file |-> json_dump(Append(logs, entry.val))]

\* The last three lines of save_log on their own: logs is the list loaded at
\* line 46, however long ago.
save_log_write_reloading(file, logs, entry) == json_dump(Append(Loaded(file), entry.val))

save_log_write(file, logs, entry) == json_dump(Append(logs, entry.val))

RECURSIVE count_ends(_, _, _)
count_ends(logs, user_id, i) ==
    IF i > Len(logs) THEN 0
    ELSE (IF logs[i].user_id = user_id /\ logs[i].action = "end" THEN 1 ELSE 0)
         + count_ends(logs, user_id, i + 1)

get_total_sessions(file, user_id) == count_ends(Loaded(file), user_id, 1)

----------------------------------------------------------------------------
(* The session scan shared by the four statistics functions.               *)
(* temp is the dict holding the pending start; sessions collects, for each *)
(* closed pair, the two datetimes whose difference the code appends.       *)
(* nows[i] is what datetime.now() returns while entry i is examined.       *)

EmptyDict == << >>

in_today(timestamp, n) ==
    year(timestamp) = year(n) /\ month(timestamp) = month(n) /\ date(timestamp) = date(n)

in_month_of_any_year(timestamp, n) == month(timestamp) = month(n)

in_month(timestamp, n) ==
    year(timestamp) = year(n) /\ month(timestamp) = month(n)

in_year(timestamp, n) == year(timestamp) = year(n)

\* The filter of the two plots of the last 30 days, as the code writes it:
\* the event's datetime minus now is compared with timedelta(days=30).
PlotDays == 30

in_last_30_days(timestamp, n) == (timestamp - n) < PlotDays * SecsPerDay

in_window(window, timestamp, n) ==
    CASE window = "daily" -> in_today(timestamp, n)
      [] window = "monthly" -> in_month(timestamp, n)
      [] window = "yearly" -> in_year(timestamp, n)
      [] window = "last 30 days" -> in_last_30_days(timestamp, n)
      [] OTHER -> TRUE

RECURSIVE scan_closing_any_end(_, _, _, _, _, _, _)
scan_closing_any_end(logs, user_id, window, nows, i, temp, sessions) ==
    IF i > Len(logs) THEN sessions
    ELSE LET entry == logs[i]
             timestamp == fromisoformat(entry.timestamp)
         IN  IF entry.user_id # user_id
             THEN scan_closing_any_end(logs, user_id, window, nows, i + 1, temp, sessions)
             ELSE IF ~in_window(window, timestamp, nows[i])
             THEN scan_closing_any_end(logs, user_id, window, nows, i + 1, temp, sessions)
             ELSE IF entry.action = "start"
             THEN scan_closing_any_end(logs, user_id, window, nows, i + 1,
                                       [start |-> timestamp], sessions)
             ELSE scan_closing_any_end(logs, user_id, window, nows, i + 1, EmptyDict,
                      Append(sessions,
                             [start |-> IF "start" \in DOMAIN temp THEN temp.start
                                        ELSE timestamp,
                              end |-> timestamp]))

RECURSIVE scan_keeping_first_start(_, _, _, _, _, _, _)
scan_keeping_first_start(logs, user_id, window, nows, i, temp, sessions) ==
    IF i > Len(logs) THEN sessions
    ELSE LET entry == logs[i]
             timestamp == fromisoformat(entry.timestamp)
         IN  IF entry.user_id # user_id
             THEN scan_keeping_first_start(logs, user_id, window, nows, i + 1, temp, sessions)
             ELSE IF ~in_window(window, timestamp, nows[i])
             THEN scan_keeping_first_start(logs, user_id, window, nows, i + 1, temp, sessions)
             ELSE IF entry.action = "start"
             THEN scan_keeping_first_start(logs, user_id, window, nows, i + 1,
                      IF "start" \in DOMAIN temp THEN temp ELSE [start |-> timestamp],
                      sessions)
             ELSE IF entry.action = "end" /\ "start" \in DOMAIN temp
             THEN scan_keeping_first_start(logs, user_id, window, nows, i + 1, EmptyDict,
                      Append(sessions, [start |-> temp.start, end |-> timestamp]))
             ELSE scan_keeping_first_start(logs, user_id, window, nows, i + 1, temp, sessions)

RECURSIVE scan(_, _, _, _, _, _, _)
scan(logs, user_id, window, nows, i, temp, sessions) ==
    IF i > Len(logs) THEN sessions
    ELSE LET entry == logs[i]
             timestamp == fromisoformat(entry.timestamp)
         IN  IF entry.user_id # user_id
             THEN scan(logs, user_id, window, nows, i + 1, temp, sessions)
             ELSE IF ~in_window(window, timestamp, nows[i])
             THEN scan(logs, user_id, window, nows, i + 1, temp, sessions)
             ELSE IF entry.action = "start"
             THEN scan(logs, user_id, window, nows, i + 1, [start |-> timestamp], sessions)
             ELSE IF entry.action = "end" /\ "start" \in DOMAIN temp
             THEN scan(logs, user_id, window, nows, i + 1, EmptyDict,
                       Append(sessions, [start |-> temp.start, end |-> timestamp]))
             ELSE scan(logs, user_id, window, nows, i + 1, temp, sessions)

\* The same loop, keeping the positions in the log instead of the datetimes:
\* pending lists the dict temp as it stands after each entry, pairs the
\* positions of the start and the end of each session appended.
RECURSIVE scan_positions_keeping_temp(_, _, _, _, _, _, _)
scan_positions_keeping_temp(logs, user_id, window, nows, i, temp, trace) ==
    IF i > Len(logs) THEN trace
    ELSE LET entry == logs[i]
             timestamp == fromisoformat(entry.timestamp)
             skip == [pairs |-> trace.pairs, pending |-> Append(trace.pending, temp)]
         IN  IF entry.user_id # user_id
             THEN scan_positions_keeping_temp(logs, user_id, window, nows, i + 1, temp, skip)
             ELSE IF ~in_window(window, timestamp, nows[i])
             THEN scan_positions_keeping_temp(logs, user_id, window, nows, i + 1, temp, skip)
             ELSE IF entry.action = "start"
             THEN scan_positions_keeping_temp(logs, user_id, window, nows, i + 1,
                      [start |-> i],
                      [pairs |-> trace.pairs,
                       pending |-> Append(trace.pending, [start |-> i])])
             ELSE IF entry.action = "end" /\ "start" \in DOMAIN temp
             THEN scan_positions_keeping_temp(logs, user_id, window, nows, i + 1, temp,
                      [pairs |-> Append(trace.pairs, [start |-> temp.start, end |-> i]),
                       pending |-> Append(trace.pending, temp)])
             ELSE scan_positions_keeping_temp(logs, user_id, window, nows, i + 1, temp, skip)

RECURSIVE scan_positions(_, _, _, _, _, _, _)
scan_positions(logs, user_id, window, nows, i, temp, trace) ==
    IF i > Len(logs) THEN trace
    ELSE LET entry == logs[i]
             timestamp == fromisoformat(entry.timestamp)
             skip == [pairs |-> trace.pairs, pending |-> Append(trace.pending, temp)]
         IN  IF entry.user_id # user_id
             THEN scan_positions(logs, user_id, window, nows, i + 1, temp, skip)
             ELSE IF ~in_window(window, timestamp, nows[i])
             THEN scan_positions(logs, user_id, window, nows, i + 1, temp, skip)
             ELSE IF entry.action = "start"
             THEN scan_positions(logs, user_id, window, nows, i + 1,
                      [start |-> i],
                      [pairs |-> trace.pairs,
                       pending |-> Append(trace.pending, [start |-> i])])
             ELSE IF entry.action = "end" /\ "start" \in DOMAIN temp
             THEN scan_positions(logs, user_id, window, nows, i + 1, EmptyDict,
                      [pairs |-> Append(trace.pairs, [start |-> temp.start, end |-> i]),
                       pending |-> Append(trace.pending, EmptyDict)])
             ELSE scan_positions(logs, user_id, window, nows, i + 1, temp, skip)

NoTrace == [pairs |-> << >>, pending |-> << >>]

\* duration.total_seconds() of one closed pair
total_seconds(session) == session.end - session.start

RECURSIVE sum_seconds(_)
sum_seconds(sessions) ==
    IF sessions = << >> THEN 0
    ELSE total_seconds(Head(sessions)) + sum_seconds(Tail(sessions))

RECURSIVE max_seconds(_)
max_seconds(sessions) ==
    IF Len(sessions) = 1 THEN total_seconds(sessions[1])
    ELSE LET rest == max_seconds(Tail(sessions))
             first == total_seconds(Head(sessions))
         IN  IF first > rest THEN first ELSE rest

NA == [fmt |-> "N/A"]
Minutes(n) == [fmt |-> "min", n |-> n]
ZeroClock == [fmt |-> "00:00:00"]

\* The else-branch of the four functions: average, maximum and formatted total.
aggregate_average_off_by_one(sessions) ==
    LET total_sessions == Len(sessions)
        total == format_duration(sum_seconds(sessions))
    IN  IF total.exc # NoException THEN [exc |-> total.exc]
        ELSE [exc |-> NoException,
              total_sessions |-> total_sessions,
              avg_duration |-> Minutes(sum_seconds(sessions) \div ((total_sessions + 1) * SecsPerMinute)),
              max_duration |-> Minutes(max_seconds(sessions) \div SecsPerMinute),
              total_duration_formatted |-> total.value]

aggregate(sessions) ==
    LET total_sessions == Len(sessions)
        total == format_duration(sum_seconds(sessions))
    IN  IF total.exc # NoException THEN [exc |-> total.exc]
        ELSE [exc |-> NoException,
              total_sessions |-> total_sessions,
              avg_duration |-> Minutes(sum_seconds(sessions) \div (total_sessions * SecsPerMinute)),
              max_duration |-> Minutes(max_seconds(sessions) \div SecsPerMinute),
              total_duration_formatted |-> total.value]

----------------------------------------------------------------------------
(* The four statistics functions. Each returns the sessions its scan built *)
(* (the local list, kept for inspection) and ret, what the call returns or *)
(* raises.                                                                 *)

get_user_daily_stats(file, user_id, nows) ==
    LET sessions == scan(Loaded(file), user_id, "daily", nows, 1, EmptyDict, << >>)
    IN  [sessions |-> sessions,
         ret |-> IF Len(sessions) = 0
                 THEN [exc |-> NoException,
                       total_sessions |-> 0,
                       avg_duration |-> NA,
                       max_duration |-> NA,
                       total_duration_formatted |-> ZeroClock]
                 ELSE aggregate(sessions)]

\* With no session the name total_duration_formatted is never bound, and the
\* return statement that reads it raises.
get_user_monthly_stats(file, user_id, nows) ==
    LET sessions == scan(Loaded(file), user_id, "monthly", nows, 1, EmptyDict, << >>)
    IN  [sessions |-> sessions,
         ret |-> IF Len(sessions) = 0
                 THEN [exc |-> "UnboundLocalError"]
                 ELSE aggregate(sessions)]

get_user_yearly_stats(file, user_id, nows) ==
    LET sessions == scan(Loaded(file), user_id, "yearly", nows, 1, EmptyDict, << >>)
    IN  [sessions |-> sessions,
         ret |-> IF Len(sessions) = 0
                 THEN [exc |-> "UnboundLocalError"]
                 ELSE aggregate(sessions)]

\* Field values of the two fits: the numbers scipy and numpy compute are not
\* modelled, only whether a field holds a number or None.
Fitted == "number"
None == "None"

RECURSIVE positive_durations(_)
positive_durations(sessions) ==
    IF sessions = << >> THEN << >>
    ELSE IF total_seconds(Head(sessions)) > 0
         THEN <<total_seconds(Head(sessions))>> \o positive_durations(Tail(sessions))
         ELSE positive_durations(Tail(sessions))

lognorm_fit(sessions) ==
    IF Len(positive_durations(sessions)) > 1
    THEN [lognorm_shape |-> Fitted, lognorm_loc |-> Fitted, lognorm_scale |-> Fitted,
          lognorm_mean |-> Fitted, lognorm_std |-> Fitted, lognorm_mode |-> Fitted]
    ELSE [lognorm_shape |-> None, lognorm_loc |-> None, lognorm_scale |-> None,
          lognorm_mean |-> None, lognorm_std |-> None]

gaussian_fit(sessions) ==
    IF Len(positive_durations(sessions)) > 1
    THEN [gaussian_mean |-> Fitted, gaussian_std |-> Fitted]
    ELSE [gaussian_mean |-> None, gaussian_std |-> None]

get_user_overall_stats(file, user_id, nows) ==
    LET sessions == scan(Loaded(file), user_id, "overall", nows, 1, EmptyDict, << >>)
        stats == IF Len(sessions) = 0
                 THEN [exc |-> "UnboundLocalError"]
                 ELSE aggregate(sessions)
    IN  [sessions |-> sessions,
         ret |-> IF stats.exc # NoException THEN stats
                 ELSE [exc |-> NoException,
                       total_sessions |-> stats.total_sessions,
                       avg_duration |-> stats.avg_duration,
                       max_duration |-> stats.max_duration,
                       total_duration_formatted |-> stats.total_duration_formatted,
                       lognorm_data |-> lognorm_fit(sessions),
                       gaussian_data |-> gaussian_fit(sessions)]]

stats_call(window, file, user_id, nows) ==
    CASE window = "daily" -> get_user_daily_stats(file, user_id, nows)
      [] window = "monthly" -> get_user_monthly_stats(file, user_id, nows)
      [] window = "yearly" -> get_user_yearly_stats(file, user_id, nows)
      [] OTHER -> get_user_overall_stats(file, user_id, nows)

Windows == {"daily", "monthly", "yearly", "overall"}

\* The plots, up to the data they draw: buf is None when there is nothing to
\* draw, else the image of the data listed with it.
\* Minutes are a float in the code: a duration is kept here in seconds.
RECURSIVE daily_totals(_, _)
daily_totals(sessions, d) ==
    IF sessions = << >> THEN 0
    ELSE (IF date(Head(sessions).start) = d THEN total_seconds(Head(sessions)) ELSE 0)
         + daily_totals(Tail(sessions), d)

generate_histogram_plot(file, user_id, nows) ==
    LET sessions == scan(Loaded(file), user_id, "last 30 days", nows, 1, EmptyDict, << >>)
        dates == {date(sessions[k].start) : k \in 1..Len(sessions)}
    IN  IF Len(sessions) = 0 THEN [buf |-> None]
        ELSE [buf |-> "png", sessions |-> sessions,
              daily_totals |-> [d \in dates |-> daily_totals(sessions, d)]]

generate_consistency_plot(file, user_id, nows) ==
    LET sessions == scan(Loaded(file), user_id, "last 30 days", nows, 1, EmptyDict, << >>)
        days == {date(sessions[k].start) : k \in 1..Len(sessions)}
    IN  IF Len(sessions) = 0 THEN [buf |-> None]
        ELSE [buf |-> "png", sessions |-> sessions,
              daily_sessions |->
                  [d \in days |-> SelectSeq(sessions, LAMBDA x : date(x.start) = d)]]

\* The fits this plot draws are not modelled, only the durations it collects.
generate_overall_statistics_plot(file, user_id, nows) ==
    LET sessions == scan(Loaded(file), user_id, "overall", nows, 1, EmptyDict, << >>)
    IN  IF Len(sessions) = 0 THEN [buf |-> None]
        ELSE [buf |-> "png", durations |-> [k \in 1..Len(sessions) |-> total_seconds(sessions[k])]]

\* A value formatted with the format spec .1f: None has no such format.
format_1f(value) ==
    IF value = None THEN [exc |-> "TypeError"]
    ELSE [exc |-> NoException, value |-> [fmt |-> ".1f", of |-> value]]

\* d[key] for a dict the model keeps as a record, then the format .1f.
subscript_1f(d, key) ==
    IF key \notin DOMAIN d THEN [exc |-> "KeyError"] ELSE format_1f(d[key])

\* The first call or replacement field that raises ends the report.
RECURSIVE first_raised(_)
first_raised(outcomes) ==
    IF outcomes = << >> THEN NoException
    ELSE IF Head(outcomes).exc # NoException THEN Head(outcomes).exc
    ELSE first_raised(Tail(outcomes))

report(file, user_id, nows) ==
    LET of_day == get_user_daily_stats(file, user_id, nows).ret
        of_month == get_user_monthly_stats(file, user_id, nows).ret
        of_year == get_user_yearly_stats(file, user_id, nows).ret
        of_overall == get_user_overall_stats(file, user_id, nows).ret
        raised == first_raised(<<of_day, of_month, of_year, of_overall>>)
        fields == IF raised # NoException THEN << >>
                  ELSE <<subscript_1f(of_overall.lognorm_data, "lognorm_mean"),
                         subscript_1f(of_overall.lognorm_data, "lognorm_mode"),
                         subscript_1f(of_overall.lognorm_data, "lognorm_std"),
                         subscript_1f(of_overall.gaussian_data, "gaussian_mean"),
                         subscript_1f(of_overall.gaussian_data, "gaussian_std")>>
    IN  IF raised # NoException THEN [exc |-> raised]
        ELSE IF first_raised(fields) # NoException THEN [exc |-> first_raised(fields)]
        ELSE [exc |-> NoException,
              text |-> [today |-> of_day, this_month |-> of_month, this_year |-> of_year,
                        overall |-> of_overall,
                        fits |-> [k \in 1..Len(fields) |-> fields[k].value]],
              photos |-> <<generate_histogram_plot(file, user_id, nows),
                           generate_consistency_plot(file, user_id, nows),
                           generate_overall_statistics_plot(file, user_id, nows)>>]

----------------------------------------------------------------------------
(* State. *)

Idle == [op |-> "none"]

\* The calls of save_log under way, one per process that runs the bot on this
\* LOG_FILE; the handlers of one process run save_log from its first line to
\* its last, so for them nothing is ever under way.
Processes == {1, 2}
NotCalled == [pc |-> "none"]
NoCalls == [p \in Processes |-> NotCalled]

Init ==
    /\ log_file = AbsentFile
    /\ user_start_times = EmptyDict
    /\ now = 0
    /\ reply = Idle
    /\ faults = 0
    /\ save_log_calls = NoCalls

\* The clock readings of one scan of n entries: the loop is over before the
\* clock shows another instant.
ClockReadings(n) == {[i \in 1..n |-> now]}

----------------------------------------------------------------------------
(* The environment: the wall clock, the process, the file on disk. *)

Tick ==
    /\ reply = Idle
    /\ Later(now) # {}
    /\ now' = NextInstant(now)
    /\ UNCHANGED <<log_file, user_start_times, reply, faults, save_log_calls>>

\* datetime.now() is naive local time: it steps back when the clock or the
\* time zone is set, or daylight saving time ends.
ClockStepBack ==
    /\ reply = Idle
    /\ faults < MaxFaults
    /\ faults' = faults + 1
    /\ \E earlier \in Earlier(now) : now' = earlier
    /\ UNCHANGED <<log_file, user_start_times, reply, save_log_calls>>

\* The process is restarted: the module-level dict starts empty again.
Restart ==
    /\ reply = Idle
    /\ faults < MaxFaults
    /\ faults' = faults + 1
    /\ user_start_times # EmptyDict
    /\ user_start_times' = EmptyDict
    /\ UNCHANGED <<log_file, now, reply, save_log_calls>>

FileRemoved ==
    /\ reply = Idle
    /\ faults < MaxFaults
    /\ faults' = faults + 1
    /\ log_file.kind = "json"
    /\ log_file' = AbsentFile
    /\ UNCHANGED <<user_start_times, now, reply, save_log_calls>>

\* A write that stops right after open(LOG_FILE, "w") leaves zero bytes.
FileTruncated ==
    /\ reply = Idle
    /\ faults < MaxFaults
    /\ faults' = faults + 1
    /\ log_file.kind = "json"
    /\ log_file' = EmptyFile
    /\ UNCHANGED <<user_start_times, now, reply, save_log_calls>>

\* A write that stops inside json.dump leaves half a document.
FileCorrupted ==
    /\ reply = Idle
    /\ faults < MaxFaults
    /\ faults' = faults + 1
    /\ log_file.kind = "json"
    /\ log_file' = CorruptFile
    /\ UNCHANGED <<user_start_times, now, reply, save_log_calls>>

----------------------------------------------------------------------------
(* The command handlers and the operations called directly. *)

start(user_id) ==
    LET start_time == isoformat(now)
        entry == PyDict([user_id |-> user_id, username |-> Username(user_id),
                         action |-> "start", timestamp |-> start_time])
        saved == save_log(log_file, entry)
    IN  /\ reply = Idle
        /\ Len(Loaded(log_file)) < MaxLog
        /\ user_start_times' =
               [u \in DOMAIN user_start_times \cup {user_id} |->
                   IF u = user_id THEN start_time ELSE user_start_times[u]]
        /\ log_file' = saved.file
        /\ reply' = [op |-> "start", user_id |-> user_id, exc |-> saved.exc,
                     entry |-> entry,
                     session_number |-> get_total_sessions(saved.file, user_id) + 1]
        /\ UNCHANGED <<now, faults, save_log_calls>>

end(user_id) ==
    LET end_time == isoformat(now) IN
    /\ reply = Idle
    /\ IF user_id \notin DOMAIN user_start_times
       THEN /\ reply' = [op |-> "end", user_id |-> user_id, exc |-> NoException,
                         text |-> "You need to start the timer first with /start."]
            /\ UNCHANGED <<log_file, user_start_times, now, faults, save_log_calls>>
       ELSE LET duration == fromisoformat(end_time) - fromisoformat(user_start_times[user_id])
                formatted_duration == format_duration(duration)
                entry == PyDict([user_id |-> user_id, username |-> Username(user_id),
                                 action |-> "end", timestamp |-> end_time,
                                 duration |-> duration])
                saved == save_log(log_file, entry)
            IN  IF formatted_duration.exc # NoException
                THEN /\ reply' = [op |-> "end", user_id |-> user_id,
                                  exc |-> formatted_duration.exc]
                     /\ UNCHANGED <<log_file, user_start_times, now, faults, save_log_calls>>
                ELSE /\ Len(Loaded(log_file)) < MaxLog
                     /\ log_file' = saved.file
                     /\ \E nows \in ClockReadings(Len(Loaded(saved.file))) :
                            reply' = [op |-> "end", user_id |-> user_id, exc |-> saved.exc,
                                      entry |-> entry,
                                      text |-> "Session ended",
                                      session_number |-> get_total_sessions(saved.file, user_id),
                                      duration |-> formatted_duration.value,
                                      report |-> report(saved.file, user_id, nows)]
                     /\ UNCHANGED <<user_start_times, now, faults, save_log_calls>>

\* save_log called with something that is no dict.
save_log_non_dict(entry) ==
    LET saved == save_log(log_file, entry)
    IN  /\ reply = Idle
        /\ log_file' = saved.file
        /\ reply' = [op |-> "save_log", exc |-> saved.exc, entry |-> entry]
        /\ UNCHANGED <<user_start_times, now, faults, save_log_calls>>

\* The read operations, called for one user at one instant, but with a load
\* that opens the file for appending and so creates it when it is missing.
statistics_creating_file(user_id) ==
    \E nows \in ClockReadings(Len(Loaded(log_file))) :
        /\ reply = Idle
        /\ reply' = [op |-> "stats", user_id |-> user_id, requested_at |-> now,
                     nows |-> nows,
                     logs |-> load_logs(log_file).value,
                     total_sessions |-> get_total_sessions(log_file, user_id),
                     results |-> [w \in Windows |-> stats_call(w, log_file, user_id, nows)]]
        /\ log_file' = IF log_file = AbsentFile THEN EmptyFile ELSE log_file
        /\ UNCHANGED <<user_start_times, now, faults, save_log_calls>>

\* The read operations, called for one user at one instant: load_logs,
\* get_total_sessions and the four statistics functions.
statistics(user_id) ==
    \E nows \in ClockReadings(Len(Loaded(log_file))) :
        /\ reply = Idle
        /\ reply' = [op |-> "stats", user_id |-> user_id, requested_at |-> now,
                     nows |-> nows,
                     logs |-> load_logs(log_file).value,
                     total_sessions |-> get_total_sessions(log_file, user_id),
                     results |-> [w \in Windows |-> stats_call(w, log_file, user_id, nows)]]
        /\ UNCHANGED <<log_file, user_start_times, now, faults, save_log_calls>>

\* The answer has gone out; the bot takes the next update.
answered ==
    /\ reply # Idle
    /\ reply' = Idle
    /\ UNCHANGED <<log_file, user_start_times, now, faults, save_log_calls>>

Next ==
    \/ Tick
    \/ ClockStepBack
    \/ Restart
    \/ FileRemoved
    \/ FileTruncated
    \/ FileCorrupted
    \/ \E u \in Users : start(u)
    \/ \E u \in Users : end(u)
    \/ \E e \in NonDictEntries : save_log_non_dict(e)
    \/ \E u \in Users : statistics(u)
    \/ answered

Spec == Init /\ [][Next]_vars

----------------------------------------------------------------------------
(* The same bot with no fault, and a wall clock that goes on while a scan   *)
(* runs: every function reads datetime.now() anew for each entry of its     *)
(* loop, so one scan can see several instants.                              *)

RunningClockReadings(n) ==
    {nows \in [1..n -> {now} \cup Later(now)] :
        /\ n > 0 => nows[1] = now
        /\ \A i, j \in 1..n : i <= j => nows[i] <= nows[j]}

statistics_while_clock_runs(user_id) ==
    \E nows \in RunningClockReadings(Len(Loaded(log_file))) :
        /\ reply = Idle
        /\ reply' = [op |-> "stats", user_id |-> user_id, requested_at |-> now,
                     nows |-> nows,
                     logs |-> load_logs(log_file).value,
                     total_sessions |-> get_total_sessions(log_file, user_id),
                     results |-> [w \in Windows |-> stats_call(w, log_file, user_id, nows)]]
        /\ now' = IF nows = << >> THEN now ELSE nows[Len(nows)]
        /\ UNCHANGED <<log_file, user_start_times, faults, save_log_calls>>

NextRunningClock ==
    \/ Tick
    \/ \E u \in Users : start(u)
    \/ \E u \in Users : end(u)
    \/ \E u \in Users : statistics_while_clock_runs(u)
    \/ answered

SpecRunningClock == Init /\ [][NextRunningClock]_vars

----------------------------------------------------------------------------
(* The same bot with no fault, kept running for more than 30 days, and the  *)
(* two plots of the last 30 days.                                           *)

PlotGapDays == 31

\* More than 30 days go by with no command.
WeeksPass ==
    /\ reply = Idle
    /\ now \in Instants
    /\ now' = now + PlotGapDays * SecsPerDay
    /\ UNCHANGED <<log_file, user_start_times, reply, faults, save_log_calls>>

plots(user_id) ==
    \E nows \in ClockReadings(Len(Loaded(log_file))) :
        /\ reply = Idle
        /\ reply' = [op |-> "plots", user_id |-> user_id, requested_at |-> now,
                     nows |-> nows,
                     histogram |-> generate_histogram_plot(log_file, user_id, nows),
                     consistency |-> generate_consistency_plot(log_file, user_id, nows)]
        /\ UNCHANGED <<log_file, user_start_times, now, faults, save_log_calls>>

NextPlots ==
    \/ Tick
    \/ WeeksPass
    \/ \E u \in Users : start(u)
    \/ \E u \in Users : end(u)
    \/ \E u \in Users : plots(u)
    \/ answered

SpecPlots == Init /\ [][NextPlots]_vars

----------------------------------------------------------------------------
(* save_log step by step, called by two processes that share LOG_FILE:      *)
(* nothing in lines 42-49 locks the file between the load and the rewrite.  *)

StartEntry(user_id) ==
    PyDict([user_id |-> user_id, username |-> Username(user_id),
            action |-> "start", timestamp |-> isoformat(now)])

\* Lines 44-46: the type check and the load.
save_log_load(p, entry) ==
    /\ save_log_calls[p] = NotCalled
    /\ entry.pytype = "dict"
    /\ Len(Loaded(log_file)) < MaxLog
    /\ save_log_calls' = [save_log_calls EXCEPT
                             ![p] = [pc |-> "loaded", entry |-> entry,
                                     logs |-> Loaded(log_file)]]
    /\ UNCHANGED <<log_file, user_start_times, now, reply, faults>>

\* Lines 47-49: the append to the loaded list and the rewrite of the file.
save_log_rewrite(p) ==
    /\ save_log_calls[p].pc = "loaded"
    /\ log_file' = save_log_write(log_file, save_log_calls[p].logs, save_log_calls[p].entry)
    /\ save_log_calls' = [save_log_calls EXCEPT ![p].pc = "completed"]
    /\ UNCHANGED <<user_start_times, now, reply, faults>>

\* The caller goes on; the process may call save_log again.
save_log_return(p) ==
    /\ save_log_calls[p].pc = "completed"
    /\ save_log_calls' = [save_log_calls EXCEPT ![p] = NotCalled]
    /\ UNCHANGED <<log_file, user_start_times, now, reply, faults>>

NextTwoProcesses ==
    \/ \E p \in Processes, u \in Users : save_log_load(p, StartEntry(u))
    \/ \E p \in Processes : save_log_rewrite(p)
    \/ \E p \in Processes : save_log_return(p)

SpecTwoProcesses == Init /\ [][NextTwoProcesses]_vars

----------------------------------------------------------------------------
(* What the claims speak about. *)

\* The stored events of one user, in storage order.
UserEvents(logs, user_id) == SelectSeq(logs, LAMBDA e : e.user_id = user_id)

Timestamp(event) == fromisoformat(event.timestamp)

\* The last answer came from the statistics functions; the log they read is
\* the one now on disk.
StatsAnswered == reply.op = "stats"
Result(window) == reply.results[window]
AnsweredEvents == UserEvents(Loaded(log_file), reply.user_id)

\* The pairing rule said without a scan: an end closes a session exactly when
\* the user's previous event is a start, and the session is that start and
\* this end.
RECURSIVE PairsFrom(_, _)
PairsFrom(events, j) ==
    IF j > Len(events) THEN << >>
    ELSE (IF events[j].action = "end" /\ events[j - 1].action = "start"
          THEN <<[start |-> Timestamp(events[j - 1]), end |-> Timestamp(events[j])]>>
          ELSE << >>)
         \o PairsFrom(events, j + 1)

IsStartStartEnd(events) ==
    /\ Len(events) = 3
    /\ events[1].action = "start" /\ events[2].action = "start" /\ events[3].action = "end"
    /\ Timestamp(events[1]) < Timestamp(events[2])
    /\ Timestamp(events[2]) < Timestamp(events[3])

\* C1: the overall scan closes each session as (the most recent start since the
\* last closed session, this end), so a start followed by another start never
\* becomes a session; [start(t1), start(t2), end(t3)] with t1 < t2 < t3 yields
\* exactly the session (t2, t3).
C1_OverwritePairing ==
    StatsAnswered =>
        /\ Result("overall").sessions = PairsFrom(AnsweredEvents, 2)
        /\ IsStartStartEnd(AnsweredEvents) =>
               Result("overall").sessions =
                   <<[start |-> Timestamp(AnsweredEvents[2]),
                      end |-> Timestamp(AnsweredEvents[3])]>>

C1_Witness ==
    /\ StatsAnswered
    /\ IsStartStartEnd(AnsweredEvents)
    /\ Len(Result("overall").sessions) = 1

OnlyEnds(events) == \A i \in 1..Len(events) : events[i].action = "end"

\* C2: a user whose stored events are all end events gets zero sessions from
\* the overall scan.
C2_OnlyEndsNoSession ==
    (StatsAnswered /\ OnlyEnds(AnsweredEvents)) => Result("overall").sessions = << >>

C2_Witness ==
    /\ StatsAnswered
    /\ Len(AnsweredEvents) >= 2
    /\ OnlyEnds(AnsweredEvents)
    /\ Result("overall").sessions = << >>

StartsInWindow(sessions, window, n) ==
    SelectSeq(sessions, LAMBDA s : in_window(window, s.start, n))

\* C3: the sessions the daily, monthly and yearly statistics count are exactly
\* the sessions of the overall reconstruction whose start falls on the same
\* calendar day, month, year as now.
C3_WindowSelectsByStart ==
    StatsAnswered =>
        \A w \in {"daily", "monthly", "yearly"} :
            Result(w).sessions =
                StartsInWindow(Result("overall").sessions, w, reply.requested_at)

\* C4: with zero sessions in the window each of the four statistics functions
\* returns total_sessions = 0 and "N/A" for average, maximum and total, and
\* raises nothing.
C4_NoDataMarker ==
    StatsAnswered =>
        \A w \in Windows :
            Len(Result(w).sessions) = 0 =>
                /\ Result(w).ret.exc = NoException
                /\ Result(w).ret.total_sessions = 0
                /\ Result(w).ret.avg_duration = NA
                /\ Result(w).ret.max_duration = NA
                /\ Result(w).ret.total_duration_formatted = NA

\* The last answer came from a handler that got as far as calling save_log.
Appended(r) == r.op \in {"start", "end"} /\ "entry" \in DOMAIN r

\* C5: after save_log(e) with a dict e, load_logs returns what it returned
\* right before the call followed by e; no earlier record is removed, moved
\* or changed.
C5_AppendOnly ==
    [][Appended(reply') =>
           Loaded(log_file') = Append(Loaded(log_file), reply'.entry.val)]_vars

C5_Witness ==
    /\ Appended(reply)
    /\ Len(Loaded(log_file)) >= 3
    /\ Loaded(log_file)[Len(Loaded(log_file))] = reply.entry.val

Unreadable(file) == file.kind \in {"absent", "empty", "corrupt"}

\* C6: with LOG_FILE absent, empty or unparsable, load_logs returns the empty
\* list and raises nothing, and the statistics functions scan an empty log.
C6_LoadFailsSoft ==
    Unreadable(log_file) =>
        /\ load_logs(log_file) = [exc |-> NoException, value |-> << >>]
        /\ StatsAnswered => \A w \in Windows : Result(w).sessions = << >>

C6_Witness ==
    /\ log_file.kind = "corrupt"
    /\ StatsAnswered
    /\ reply.user_id \in DOMAIN user_start_times

\* C7: save_log called with something that is no dict raises ValueError and
\* leaves the file as it was.
C7_NonDictRejected ==
    [][(reply'.op = "save_log" /\ reply'.entry.pytype # "dict") =>
           (reply'.exc = "ValueError" /\ log_file' = log_file)]_vars

C7_Witness ==
    /\ reply.op = "save_log"
    /\ reply.exc = "ValueError"
    /\ log_file.kind = "json"
    /\ Len(log_file.entries) >= 2

NonNegative(sessions) == \A i \in 1..Len(sessions) : sessions[i].end >= sessions[i].start

\* C8: every session the reconstructor builds from the stored events has
\* end_time >= start_time.
C8_DurationsNonNegative ==
    StatsAnswered => \A w \in Windows : NonNegative(Result(w).sessions)

\* The unfiltered scan alone: end() refuses to log an end that lies before the
\* start it remembers, so these sessions are never negative.
C8_OverallNonNegative ==
    StatsAnswered => NonNegative(Result("overall").sessions)

Duration(session) == session.end - session.start

DurationSum(sessions) ==
    LET upto[i \in 0..Len(sessions)] ==
            IF i = 0 THEN 0 ELSE upto[i - 1] + Duration(sessions[i])
    IN  upto[Len(sessions)]

IsMaximum(m, sessions) ==
    /\ \E i \in 1..Len(sessions) : Duration(sessions[i]) = m
    /\ \A i \in 1..Len(sessions) : Duration(sessions[i]) <= m

HmsSeconds(hms) == hms.h * SecsPerHour + hms.m * SecsPerMinute + hms.s

Returned(window) == Result(window).ret.exc = NoException

\* C9: when a statistics function returns with count > 0, the total is the
\* sum of the session durations, the maximum is their maximum in whole
\* minutes, and average (in minutes) times count differs from the total by
\* less than one minute per session.
C9_AggregatesConsistent ==
    StatsAnswered =>
        \A w \in Windows :
            (Returned(w) /\ Result(w).ret.total_sessions > 0) =>
                LET sessions == Result(w).sessions
                    ret == Result(w).ret
                    count == ret.total_sessions
                    total == DurationSum(sessions)
                IN  /\ count = Len(sessions)
                    /\ ret.total_duration_formatted.fmt = "hms"
                    /\ HmsSeconds(ret.total_duration_formatted) = total
                    /\ ret.max_duration.fmt = "min"
                    /\ \E m \in 0..SecsPerYear :
                           /\ IsMaximum(m, sessions)
                           /\ ret.max_duration.n * SecsPerMinute <= m
                           /\ m < (ret.max_duration.n + 1) * SecsPerMinute
                    /\ ret.avg_duration.fmt = "min"
                    /\ ret.avg_duration.n * SecsPerMinute * count <= total
                    /\ total < (ret.avg_duration.n + 1) * SecsPerMinute * count

C9_Witness ==
    /\ StatsAnswered
    /\ Returned("overall")
    /\ Result("overall").ret.total_sessions = 2
    /\ Duration(Result("overall").sessions[1]) # Duration(Result("overall").sessions[2])
    /\ DurationSum(Result("overall").sessions) % (2 * SecsPerMinute) # 0

LognormFields ==
    {"lognorm_shape", "lognorm_loc", "lognorm_scale",
     "lognorm_mean", "lognorm_std", "lognorm_mode"}
GaussianFields == {"gaussian_mean", "gaussian_std"}

AllFields(data, fields, value) ==
    /\ fields \subseteq DOMAIN data
    /\ \A f \in fields : data[f] = value

PositiveCount(sessions) ==
    Cardinality({i \in 1..Len(sessions) : Duration(sessions[i]) > 0})

\* C10: get_user_overall_stats returns a fit that is defined only with at
\* least 2 strictly positive durations; otherwise every fit field (Normal mean
\* and std; Log-Normal shape, location, scale, mean, std and mode) is present
\* and holds the undefined marker.
C10_FitFieldsPresent ==
    (StatsAnswered /\ Returned("overall")) =>
        LET ret == Result("overall").ret
            value == IF PositiveCount(Result("overall").sessions) >= 2
                     THEN Fitted ELSE None
        IN  /\ AllFields(ret.lognorm_data, LognormFields, value)
            /\ AllFields(ret.gaussian_data, GaussianFields, value)

\* The positions the scan of the last answer paired, per window.
Positions(window) ==
    scan_positions(Loaded(log_file), reply.user_id, window, reply.nows, 1, EmptyDict, NoTrace)

\* The datetimes stored at the paired positions.
AtPositions(pairs) ==
    [k \in 1..Len(pairs) |->
        [start |-> Timestamp(Loaded(log_file)[pairs[k].start]),
         end |-> Timestamp(Loaded(log_file)[pairs[k].end])]]

\* C11: during the scan at most one start is pending, each start event and each
\* end event belongs to at most one session, and of any two sessions of the
\* user the earlier one ends, in stored order, before the later one starts.
C11_NonOverlappingPairing ==
    StatsAnswered =>
        \A w \in Windows :
            LET pairs == Positions(w).pairs
                pending == Positions(w).pending
            IN  /\ AtPositions(pairs) = Result(w).sessions
                /\ \A i \in 1..Len(pending) : Cardinality(DOMAIN pending[i]) <= 1
                /\ \A k \in 1..Len(pairs) : pairs[k].start < pairs[k].end
                /\ \A k, l \in 1..Len(pairs) :
                       k < l => /\ pairs[k].end < pairs[l].start
                                /\ pairs[k].start # pairs[l].start
                                /\ pairs[k].end # pairs[l].end

C11_Witness ==
    /\ StatsAnswered
    /\ Len(Positions("overall").pairs) = 2
    /\ \E i \in 1..Len(Positions("overall").pending) :
           Positions("overall").pending[i] # EmptyDict

\* C12: load_logs, get_total_sessions and the four statistics functions write
\* nothing: the stored log and the pending-start dict are what they were
\* before the calls, and a load after them returns what the load before them
\* returned.
C12_ReadsWriteNothing ==
    [][reply'.op = "stats" =>
          /\ log_file' = log_file
          /\ user_start_times' = user_start_times
          /\ reply'.logs = load_logs(log_file).value
          /\ load_logs(log_file').value = reply'.logs]_vars

C12_Witness ==
    /\ StatsAnswered
    /\ Len(reply.logs) >= 2
    /\ reply.total_sessions >= 1
    /\ user_start_times # EmptyDict
    /\ Len(Result("overall").sessions) >= 1

\* The report the last /end sent, and the sessions of its user in the log.
Reported == reply.op = "end" /\ "report" \in DOMAIN reply

SessionsOf(user_id) ==
    scan(Loaded(log_file), user_id, "overall", [i \in 1..Len(Loaded(log_file)) |-> now],
         1, EmptyDict, << >>)

\* C13: when /end leaves its user with fewer than 2 strictly positive
\* durations, as at the first completed session, the report it sends raises
\* nothing.
C13_ReportCompletes ==
    (Reported /\ PositiveCount(SessionsOf(reply.user_id)) < 2) =>
        reply.report.exc = NoException

\* C14: within one statistics request now is evaluated once: what the four
\* functions return is what they return when every event is tested against
\* one and the same instant.
C14_OneNowPerRequest ==
    StatsAnswered =>
        \E n \in Instants :
            \A w \in Windows :
                Result(w) = stats_call(w, log_file, reply.user_id,
                                       [i \in 1..Len(reply.logs) |-> n])

\* n minutes is seconds / per rounded to the nearest integer (a tie may go
\* either way).
Abs(x) == IF x < 0 THEN -x ELSE x

IsNearestMinute(n, seconds, per) ==
    2 * Abs(n * SecsPerMinute * per - seconds) <= SecsPerMinute * per

\* C15: the average and the maximum a statistics function returns are the
\* values in seconds rounded to the nearest integer minute.
C15_RoundedToNearestMinute ==
    StatsAnswered =>
        \A w \in Windows :
            (Returned(w) /\ Result(w).ret.total_sessions > 0) =>
                /\ IsNearestMinute(Result(w).ret.avg_duration.n,
                                   DurationSum(Result(w).sessions),
                                   Len(Result(w).sessions))
                /\ \E m \in {Duration(Result(w).sessions[k]) : k \in 1..Len(Result(w).sessions)} :
                       /\ IsMaximum(m, Result(w).sessions)
                       /\ IsNearestMinute(Result(w).ret.max_duration.n, m, 1)

\* Both calls of save_log have completed, and both had loaded before either
\* rewrote the file.
BothCompleted == \A p \in Processes : save_log_calls[p].pc = "completed"

Interleaved ==
    /\ BothCompleted
    /\ \A p, q \in Processes : save_log_calls[p].logs = save_log_calls[q].logs

\* C16: save_log loads and rewrites with no lock in between: when two appends
\* interleave, both loading before either rewrites, both complete and the
\* stored log holds only one of the two events (the update of the other is
\* lost).
C16_LostUpdate ==
    Interleaved =>
        \E p \in Processes :
            Loaded(log_file) = Append(save_log_calls[p].logs, save_log_calls[p].entry.val)

C16_Witness ==
    /\ Interleaved
    /\ save_log_calls[1].entry # save_log_calls[2].entry
    /\ Len(Loaded(log_file)) = Len(save_log_calls[1].logs) + 1
    /\ \E k \in 1..Len(Loaded(log_file)) : Loaded(log_file)[k] = save_log_calls[1].entry.val
    /\ ~ \E k \in 1..Len(Loaded(log_file)) : Loaded(log_file)[k] = save_log_calls[2].entry.val

\* The sessions a plot of the last answer aggregates (none when there is
\* nothing to draw).
PlotSessions(plot) == IF plot.buf = None THEN << >> ELSE plot.sessions

WithinLast30Days(timestamp, n) ==
    timestamp <= n /\ n - timestamp <= PlotDays * SecsPerDay

\* C17: the daily totals and the per-day timeline of the last 30 days hold
\* only sessions whose start and end events lie within the 30 days before
\* now.
C17_PlotsOfLast30Days ==
    reply.op = "plots" =>
        /\ \A k \in 1..Len(PlotSessions(reply.histogram)) :
               /\ WithinLast30Days(PlotSessions(reply.histogram)[k].start, reply.requested_at)
               /\ WithinLast30Days(PlotSessions(reply.histogram)[k].end, reply.requested_at)
        /\ \A k \in 1..Len(PlotSessions(reply.consistency)) :
               /\ WithinLast30Days(PlotSessions(reply.consistency)[k].start, reply.requested_at)
               /\ WithinLast30Days(PlotSessions(reply.consistency)[k].end, reply.requested_at)

\* The user's last event in the stored log is a start of the past or present:
\* a session is open in the log.
UnclosedStart(user_id) ==
    LET events == UserEvents(Loaded(log_file), user_id)
    IN  /\ events # << >>
        /\ events[Len(events)].action = "start"
        /\ Timestamp(events[Len(events)]) <= now

\* C18: whether /end closes a session depends on the log alone, so also after
\* a restart: when the log of the user ends with an unclosed start, /end is
\* not refused and appends the end event.
C18_EndDependsOnLogOnly ==
    [][\A u \in Users :
          (UnclosedStart(u) /\ reply'.op = "end" /\ reply'.user_id = u) =>
              /\ "entry" \in DOMAIN reply'
              /\ Loaded(log_file') = Append(Loaded(log_file), reply'.entry.val)]_vars

\* C19: the session number /start and /end announce, get_total_sessions (the
\* number of end events of the user), is the number of sessions the overall
\* scan builds from the log: /end appends an end event only onto an unclosed
\* start.
C19_EndCountIsSessionCount ==
    /\ (reply.op = "end" /\ "entry" \in DOMAIN reply) =>
           reply.session_number = Len(SessionsOf(reply.user_id))
    /\ reply.op = "start" =>
           reply.session_number = Len(SessionsOf(reply.user_id)) + 1
    /\ StatsAnswered =>
           reply.total_sessions = Len(Result("overall").sessions)

SessionCount(window) == Len(Result(window).sessions)

\* C20: for one log, one user and one now the numbers of sessions are nested:
\* daily <= monthly <= yearly <= overall.
C20_NestedCounts ==
    StatsAnswered =>
        /\ SessionCount("daily") <= SessionCount("monthly")
        /\ SessionCount("monthly") <= SessionCount("yearly")
        /\ SessionCount("yearly") <= SessionCount("overall")
        /\ \A w \in Windows :
               (Returned(w) /\ Returned("overall")) =>
                   Result(w).ret.total_sessions <= Result("overall").ret.total_sessions

C20_Witness ==
    /\ StatsAnswered
    /\ SessionCount("daily") = 1
    /\ SessionCount("yearly") = 2
    /\ \E w \in Windows : SessionCount(w) < SessionCount("overall")

====
